---- MODULE Spec2Model ----
(***************************************************************************)
(* Model of drawingcnc.py: the orchestrator ("py") launches three external *)
(* tools as child processes connected by OS pipes:                         *)
(*    take_calibrated_picture  --cap_out-->  py                            *)
(*    py --conv_in--> convert --conv_out--> potrace --pot_out--> py        *)
(* The orchestrator is one sequential thread (pc); the tools run           *)
(* concurrently with it and with each other.  A pipe is a bounded FIFO     *)
(* with a set of processes holding its write end and a set holding its     *)
(* read end; a read of an empty pipe blocks while a writer exists and      *)
(* reports end-of-stream once none does.                                   *)
(***************************************************************************)
EXTENDS Integers, Sequences, FiniteSets, TLC

VARIABLES argc, picture, pc, pipes, procs, output, jpeg_data, eps_data,
          file, exit,
          file0    \* history: the destination file as it was before the run

vars == <<argc, picture, pc, pipes, procs, output, jpeg_data, eps_data,
          file, exit, file0>>

(* ---------------------------- bounds ----------------------------------- *)
\* longest picture the capture tool emits
MaxLen == 2
\* capacity of every OS pipe buffer, in bytes
PipeCap == 1

Byte == {0, 1}

BoundedSeq(S, n) == UNION {[1..k -> S] : k \in 0..n}

(* ----------------------- the external transforms ----------------------- *)
\* "convert -:jpg pnm:-": raster -> portable format.  A stand-in that is
\* not the identity: a two-byte magic header, then the raster with every
\* byte re-encoded.
Convert(s) == <<2, 4>> \o [i \in 1..Len(s) |-> 1 - s[i]]

\* "potrace": portable format -> vector drawing.  A stand-in: the input
\* reversed, closed by a trailer byte.
Trace(s) == [i \in 1..Len(s) |-> s[Len(s) + 1 - i]] \o <<3>>

(* ------------------------------ pipes ---------------------------------- *)
Tools == {"cap", "conv", "pot"}
PipeNames == {"cap_out", "conv_in", "conv_out", "pot_out"}

NoPipe == [buf |-> <<>>, writers |-> {}, readers |-> {}]

\* subprocess.PIPE: a fresh pipe, write end held by w, read end by r
NewPipe(w, r) == [buf |-> <<>>, writers |-> {w}, readers |-> {r}]

\* process p terminates (or the orchestrator exits): the OS closes every
\* descriptor it holds
CloseAll(ps, p) ==
    [n \in PipeNames |-> [ps[n] EXCEPT !.writers = @ \ {p},
                                       !.readers = @ \ {p}]]

\* a read of pipe n would report end-of-stream
AtEOF(n) == pipes[n].buf = <<>> /\ pipes[n].writers = {}

\* a read of pipe n blocks
ReadBlocks(n) == pipes[n].buf = <<>> /\ pipes[n].writers # {}

\* a write to pipe n blocks
WriteBlocks(n) == Len(pipes[n].buf) >= PipeCap /\ pipes[n].readers # {}

(* --------------------------- child processes --------------------------- *)
NoProc == [st |-> "none", phase |-> "read", inbuf |-> <<>>, outq |-> <<>>,
           code |-> 0]

StdinOf(t) == IF t = "conv" THEN "conv_in" ELSE "conv_out"
StdoutOf(t) == CASE t = "cap" -> "cap_out"
                 [] t = "conv" -> "conv_out"
                 [] t = "pot" -> "pot_out"

\* What tool t can have written after reading s from its standard input:
\* the converter re-encodes as it reads, the tracer needs the whole image.
Determined(t, s, eof) ==
    IF t = "conv" THEN Convert(s)
    ELSE IF eof THEN Trace(s) ELSE <<>>

\* the output that reading on from s to s2 adds
Newly(t, s, s2, eof) ==
    SubSeq(Determined(t, s2, eof), Len(Determined(t, s, FALSE)) + 1,
           Len(Determined(t, s2, eof)))

\* a tool just started by Popen: reading, nothing read yet
Started(t) == [st |-> "run", phase |-> "read", inbuf |-> <<>>,
               outq |-> Determined(t, <<>>, FALSE), code |-> 0]

Running(t) == procs[t].st = "run"
Launched(t) == procs[t].st # "none"
\* the process is gone: a zombie, or reaped by wait()
Terminated(t) == procs[t].st \in {"exited", "reaped"}

\* the converter and the tracer read their standard input byte by byte ...
ToolRead(t) ==
    /\ t \in {"conv", "pot"}
    /\ Running(t) /\ procs[t].phase = "read"
    /\ pipes[StdinOf(t)].buf # <<>>
    /\ LET b == Head(pipes[StdinOf(t)].buf)
           s == procs[t].inbuf
       IN procs' = [procs EXCEPT
                      ![t].inbuf = Append(s, b),
                      ![t].outq = @ \o Newly(t, s, Append(s, b), FALSE)]
    /\ pipes' = [pipes EXCEPT ![StdinOf(t)].buf = Tail(@)]
    /\ UNCHANGED <<argc, file0, picture, pc, output, jpeg_data, eps_data, file, exit>>

\* ... up to end-of-stream, which completes their output
ToolEOF(t) ==
    /\ t \in {"conv", "pot"}
    /\ Running(t) /\ procs[t].phase = "read"
    /\ AtEOF(StdinOf(t))
    /\ LET s == procs[t].inbuf
       IN procs' = [procs EXCEPT ![t].phase = "write",
                                 ![t].outq = @ \o Newly(t, s, s, TRUE)]
    /\ UNCHANGED <<argc, file0, picture, pc, pipes, output, jpeg_data, eps_data,
                   file, exit>>

\* a tool writes its output to its standard output while the pipe has room
ToolWrite(t) ==
    /\ Running(t) /\ procs[t].phase \in {"read", "write"}
    /\ procs[t].outq # <<>>
    /\ pipes[StdoutOf(t)].readers # {}
    /\ Len(pipes[StdoutOf(t)].buf) < PipeCap
    /\ pipes' = [pipes EXCEPT ![StdoutOf(t)].buf = Append(@, Head(procs[t].outq))]
    /\ procs' = [procs EXCEPT ![t].outq = Tail(@)]
    /\ UNCHANGED <<argc, file0, picture, pc, output, jpeg_data, eps_data, file, exit>>

\* a write to a pipe nobody reads any more: SIGPIPE kills the tool
ToolSigpipe(t) ==
    /\ Running(t) /\ procs[t].phase \in {"read", "write"}
    /\ procs[t].outq # <<>>
    /\ pipes[StdoutOf(t)].readers = {}
    /\ procs' = [procs EXCEPT ![t].st = "exited", ![t].code = 1]
    /\ pipes' = CloseAll(pipes, t)
    /\ UNCHANGED <<argc, file0, picture, pc, output, jpeg_data, eps_data, file, exit>>

\* all output written: the tool closes its standard output ...
ToolCloseStdout(t) ==
    /\ Running(t) /\ procs[t].phase = "write"
    /\ procs[t].outq = <<>>
    /\ procs' = [procs EXCEPT ![t].phase = "closed"]
    /\ pipes' = [pipes EXCEPT ![StdoutOf(t)].writers = @ \ {t}]
    /\ UNCHANGED <<argc, file0, picture, pc, output, jpeg_data, eps_data, file, exit>>

\* ... and terminates with status 0
ToolExit(t) ==
    /\ Running(t) /\ procs[t].phase = "closed"
    /\ procs' = [procs EXCEPT ![t].st = "exited", ![t].code = 0]
    /\ pipes' = CloseAll(pipes, t)
    /\ UNCHANGED <<argc, file0, picture, pc, output, jpeg_data, eps_data, file, exit>>

\* a tool may fail at any point: it terminates with a non-zero status,
\* leaving whatever it had written so far
ToolFail(t) ==
    /\ Running(t)
    /\ procs' = [procs EXCEPT ![t].st = "exited", ![t].code = 1]
    /\ pipes' = CloseAll(pipes, t)
    /\ UNCHANGED <<argc, file0, picture, pc, output, jpeg_data, eps_data, file, exit>>

(* ---------------------------- orchestrator ----------------------------- *)
NoBytes == [type |-> "none", data |-> <<>>]
Bytes(s) == [type |-> "bytes", data |-> s]

NotExited == [code |-> -1, err |-> ""]

\* the interpreter terminates: status, what went to stderr, descriptors closed
SysExit(code, err) ==
    /\ pc' = "exited"
    /\ exit' = [code |-> code, err |-> err]
    /\ pipes' = CloseAll(pipes, "py")

UsageMessage == "Usage: drawingcnc.py OUTPUT_FILENAME.eps."
BuildMessage == "Please build the take_calibrated_picture script first."

\* the check written with the wrong limit
ArgMissing_OffByOne == argc < 1

\* len(sys.argv) < 2
ArgMissing == argc < 2

\* __main__: the argument check
MainUsage ==
    /\ pc = "main"
    /\ ArgMissing
    /\ SysExit(1, UsageMessage)
    /\ UNCHANGED <<argc, file0, picture, procs, output, jpeg_data, eps_data, file>>

\* the destination opened before the drawing is fetched
MainStart_OpensFirst ==
    /\ pc = "main"
    /\ ~ArgMissing
    /\ file' = [exists |-> TRUE, data |-> <<>>]
    /\ pc' = "cap_popen"
    /\ UNCHANGED <<argc, file0, picture, pipes, procs, output, jpeg_data,
                   eps_data, exit>>

MainStart ==
    /\ pc = "main"
    /\ ~ArgMissing
    /\ pc' = "cap_popen"
    /\ UNCHANGED <<argc, file0, picture, pipes, procs, output, jpeg_data, eps_data,
                   file, exit>>

\* getCalibratedJPEG: Popen finds the capture tool and starts it
CapturePopen ==
    /\ pc = "cap_popen"
    /\ procs' = [procs EXCEPT !["cap"] = [st |-> "run", phase |-> "write",
                                           inbuf |-> <<>>, outq |-> picture,
                                           code |-> 0]]
    /\ pipes' = [pipes EXCEPT !["cap_out"] = NewPipe("cap", "py")]
    /\ pc' = "cap_communicate"
    /\ UNCHANGED <<argc, file0, picture, output, jpeg_data, eps_data, file, exit>>

\* a handler that swallows the error and carries on with no image
CaptureNotFound_Swallowed ==
    /\ pc = "cap_popen"
    /\ jpeg_data' = Bytes(<<>>)
    /\ pc' = "conv_popen"
    /\ UNCHANGED <<argc, file0, picture, pipes, procs, output, eps_data, file, exit>>

\* getCalibratedJPEG: Popen raises FileNotFoundError, the handler exits
CaptureNotFound ==
    /\ pc = "cap_popen"
    /\ SysExit(1, BuildMessage)
    /\ UNCHANGED <<argc, file0, picture, procs, output, jpeg_data, eps_data, file>>

\* communicate(): read the child's standard output ...
CommunicateRead(at, n) ==
    /\ pc = at
    /\ pipes[n].buf # <<>>
    /\ output' = output \o pipes[n].buf
    /\ pipes' = [pipes EXCEPT ![n].buf = <<>>]
    /\ UNCHANGED <<argc, file0, picture, pc, procs, jpeg_data, eps_data, file, exit>>

\* ... to end-of-stream, close it, then wait() for the child
CommunicateEOF(at, n, next) ==
    /\ pc = at
    /\ AtEOF(n)
    /\ pipes' = [pipes EXCEPT ![n].readers = @ \ {"py"}]
    /\ pc' = next
    /\ UNCHANGED <<argc, file0, picture, procs, output, jpeg_data, eps_data, file, exit>>

\* wait(): blocks until child t has terminated, and reaps it
Wait(t) ==
    /\ procs[t].st = "exited"
    /\ procs' = [procs EXCEPT ![t].st = "reaped"]

CaptureRead == CommunicateRead("cap_communicate", "cap_out")

CaptureEOF == CommunicateEOF("cap_communicate", "cap_out", "cap_wait")

\* the output read to end-of-stream, the child not waited for
CaptureWait_NoWait ==
    /\ pc = "cap_wait"
    /\ jpeg_data' = Bytes(output)
    /\ output' = <<>>
    /\ pc' = "conv_popen"
    /\ UNCHANGED <<argc, file0, picture, pipes, procs, eps_data, file, exit>>

\* getCalibratedJPEG: communicate() returns, the function returns output
CaptureWait ==
    /\ pc = "cap_wait"
    /\ Wait("cap")
    /\ jpeg_data' = Bytes(output)
    /\ output' = <<>>
    /\ pc' = "conv_popen"
    /\ UNCHANGED <<argc, file0, picture, pipes, eps_data, file, exit>>

\* jpegToEPS: Popen finds the converter and starts it, standard input and
\* output both fresh pipes held by the orchestrator.  (The command is given
\* as one string without a shell, so on POSIX the executable looked up is
\* the file named by the whole string; whether the lookup succeeds is the
\* environment's choice.)
ConvertPopen ==
    /\ pc = "conv_popen"
    /\ procs' = [procs EXCEPT !["conv"] = Started("conv")]
    /\ pipes' = [pipes EXCEPT !["conv_in"] = NewPipe("py", "conv"),
                              !["conv_out"] = NewPipe("conv", "py")]
    /\ pc' = "pot_popen"
    /\ UNCHANGED <<argc, file0, picture, output, jpeg_data, eps_data, file, exit>>

\* jpegToEPS: Popen raises FileNotFoundError; nothing catches it
ConvertNotFound ==
    /\ pc = "conv_popen"
    /\ SysExit(1, "FileNotFoundError")
    /\ UNCHANGED <<argc, file0, picture, procs, output, jpeg_data, eps_data, file>>

\* jpegToEPS: Popen starts the tracer, its standard input the read end of
\* the converter's output pipe, its standard output a fresh pipe
PotracePopen ==
    /\ pc = "pot_popen"
    /\ procs' = [procs EXCEPT !["pot"] = Started("pot")]
    /\ pipes' = [pipes EXCEPT !["conv_out"].readers = @ \cup {"pot"},
                              !["pot_out"] = NewPipe("pot", "py")]
    /\ pc' = "conv_stdout_close"
    /\ UNCHANGED <<argc, file0, picture, output, jpeg_data, eps_data, file, exit>>

PotraceNotFound ==
    /\ pc = "pot_popen"
    /\ SysExit(1, "FileNotFoundError")
    /\ UNCHANGED <<argc, file0, picture, procs, output, jpeg_data, eps_data, file>>

\* the handle on the converter's output kept open
ConvertStdoutClose_Skipped ==
    /\ pc = "conv_stdout_close"
    /\ pc' = "pot_communicate"
    /\ UNCHANGED <<argc, file0, picture, pipes, procs, output, jpeg_data, eps_data,
                   file, exit>>

\* convert.stdout.close()
ConvertStdoutClose ==
    /\ pc = "conv_stdout_close"
    /\ pipes' = [pipes EXCEPT !["conv_out"].readers = @ \ {"py"}]
    /\ pc' = "pot_communicate"
    /\ UNCHANGED <<argc, file0, picture, procs, output, jpeg_data, eps_data, file, exit>>

\* output = potrace.communicate()[0]
PotraceRead == CommunicateRead("pot_communicate", "pot_out")

PotraceEOF == CommunicateEOF("pot_communicate", "pot_out", "pot_wait")

\* a wait that checks the tracer's exit status and aborts on failure
PotraceWait_Checked ==
    /\ pc = "pot_wait"
    /\ Wait("pot")
    /\ IF procs["pot"].code = 0
       THEN pc' = "conv_wait" /\ UNCHANGED <<pipes, exit>>
       ELSE SysExit(1, "CalledProcessError")
    /\ UNCHANGED <<argc, file0, picture, output, jpeg_data, eps_data, file>>

PotraceWait ==
    /\ pc = "pot_wait"
    /\ Wait("pot")
    /\ pc' = "conv_wait"
    /\ UNCHANGED <<argc, file0, picture, pipes, output, jpeg_data, eps_data, file, exit>>

\* the return without convert.wait()
ConvertWait_NoWait ==
    /\ pc = "conv_wait"
    /\ eps_data' = Bytes(output)
    /\ output' = <<>>
    /\ pc' = "main_open"
    /\ UNCHANGED <<argc, file0, picture, pipes, procs, jpeg_data, file, exit>>

\* convert.wait(); return output (getEPSDrawing hands it on to __main__)
ConvertWait ==
    /\ pc = "conv_wait"
    /\ Wait("conv")
    /\ eps_data' = Bytes(output)
    /\ output' = <<>>
    /\ pc' = "main_open"
    /\ UNCHANGED <<argc, file0, picture, pipes, jpeg_data, file, exit>>

\* open(sys.argv[1], "w", encoding="utf-8"): created or truncated
MainOpen ==
    /\ pc = "main_open"
    /\ file' = [exists |-> TRUE, data |-> <<>>]
    /\ pc' = "main_write"
    /\ UNCHANGED <<argc, file0, picture, pipes, procs, output, jpeg_data, eps_data, exit>>

\* fh.write(v) on a text-mode file accepts a str only
TextWriteAccepts(v) == v.type = "str"

\* fh.write(eps_data), leaving the with block, end of the script
MainWrite ==
    /\ pc = "main_write"
    /\ IF TextWriteAccepts(eps_data)
       THEN /\ file' = [file EXCEPT !.data = @ \o eps_data.data]
            /\ SysExit(0, "")
       ELSE /\ file' = file
            /\ SysExit(1, "TypeError")
    /\ UNCHANGED <<argc, file0, picture, procs, output, jpeg_data, eps_data>>

Init ==
    /\ argc \in {1, 2}
    /\ picture \in BoundedSeq(Byte, MaxLen)
    /\ pc = "main"
    /\ pipes = [n \in PipeNames |-> NoPipe]
    /\ procs = [t \in Tools |-> NoProc]
    /\ output = <<>>
    /\ jpeg_data = NoBytes
    /\ eps_data = NoBytes
    /\ file \in {[exists |-> FALSE, data |-> <<>>], [exists |-> TRUE, data |-> <<0>>]}
    /\ exit = NotExited
    /\ file0 = file

Next ==
    \/ MainUsage
    \/ MainStart
    \/ CapturePopen
    \/ CaptureNotFound
    \/ CaptureRead
    \/ CaptureEOF
    \/ CaptureWait
    \/ ConvertPopen
    \/ ConvertNotFound
    \/ PotracePopen
    \/ PotraceNotFound
    \/ ConvertStdoutClose
    \/ PotraceRead
    \/ PotraceEOF
    \/ PotraceWait
    \/ ConvertWait
    \/ MainOpen
    \/ MainWrite
    \/ \E t \in Tools : ToolRead(t)
    \/ \E t \in Tools : ToolEOF(t)
    \/ \E t \in Tools : ToolWrite(t)
    \/ \E t \in Tools : ToolSigpipe(t)
    \/ \E t \in Tools : ToolCloseStdout(t)
    \/ \E t \in Tools : ToolExit(t)
    \/ \E t \in Tools : ToolFail(t)

Spec == Init /\ [][Next]_vars

(* ------------------------------ properties ----------------------------- *)
\* jpegToEPS has returned: __main__ holds its result
JpegToEPSReturned == eps_data # NoBytes

Failed == pc = "exited" /\ exit.code # 0

\* the positions of the orchestrator inside getCalibratedJPEG and jpegToEPS
CapturePcs == {"cap_popen", "cap_communicate", "cap_wait"}
ConvTracePcs == {"conv_popen", "pot_popen", "conv_stdout_close",
                 "pot_communicate", "pot_wait", "conv_wait"}

\* C1: a run started without an output filename ends with a non-zero status
\* and the usage message, and no tool is ever launched in it.
C1_UsageBeforeAnyTool ==
    argc < 2 =>
        /\ pc \in {"main", "exited"}
        /\ pc = "exited" => exit.code # 0 /\ exit.err = UsageMessage
        /\ \A t \in Tools : ~Launched(t)

C1_Witness == argc < 2 /\ pc = "exited"

\* the run went through the launch of the capture tool and no capture
\* process exists: the executable was not found
CaptureMissing ==
    /\ ~(argc < 2)
    /\ pc \notin {"main", "cap_popen"}
    /\ ~Launched("cap")

\* C2: when the capture tool cannot be found the run halts with a non-zero
\* status and the message asking to build it, and neither the converter nor
\* the tracer is launched.
C2_CaptureMissingHalts ==
    CaptureMissing =>
        /\ pc = "exited"
        /\ exit.code # 0
        /\ exit.err = BuildMessage
        /\ ~Launched("conv") /\ ~Launched("pot")

C2_Witness == CaptureMissing /\ pc = "exited"

\* every byte handed to the converter's standard input so far
SuppliedToConverter == procs["conv"].inbuf \o pipes["conv_in"].buf

\* C3: once the orchestrator turns to reading the result, the converter's
\* standard input has been given exactly the raster bytes captured.
C3_ConverterGivenRaster ==
    pc \in {"pot_communicate", "pot_wait", "conv_wait"} =>
        SuppliedToConverter = jpeg_data.data

\* C4: while the orchestrator waits for the result of the two stages, it
\* has closed its end of the converter's input stream.
C4_ConverterInputClosed ==
    pc \in {"pot_communicate", "pot_wait", "conv_wait"} =>
        "py" \notin pipes["conv_in"].writers

\* the orchestrator is blocked reading the tracer's output
OrchestratorBlocked == pc = "pot_communicate" /\ ReadBlocks("pot_out")

\* tool t can neither read, nor write, nor see end-of-stream
ToolBlocked(t) ==
    /\ Running(t)
    /\ \/ /\ procs[t].phase = "read"
          /\ ReadBlocks(StdinOf(t))
          /\ procs[t].outq = <<>> \/ WriteBlocks(StdoutOf(t))
       \/ /\ procs[t].phase = "write"
          /\ procs[t].outq # <<>>
          /\ WriteBlocks(StdoutOf(t))

\* C5: inside jpegToEPS the orchestrator, the converter and the tracer are
\* never all blocked on a pipe at once.
C5_NoPipeDeadlock ==
    ~(OrchestratorBlocked /\ ToolBlocked("conv") /\ ToolBlocked("pot"))

\* C6: the value jpegToEPS returns is Trace(Convert(raster)).
C6_ResultIsTraceOfConvert ==
    JpegToEPSReturned => eps_data.data = Trace(Convert(jpeg_data.data))

\* C7: a run with an output filename in which all three tools were launched
\* and have terminated ends normally, the file holding the tracer's bytes.
C7_FileHoldsResult ==
    (pc = "exited" /\ ~(argc < 2) /\ \A t \in Tools : Terminated(t)) =>
        /\ exit.code = 0
        /\ file = [exists |-> TRUE, data |-> eps_data.data]

\* C8: once jpegToEPS has returned, the converter and the tracer have both
\* terminated and been waited on.
C8_ReturnedImpliesReaped ==
    JpegToEPSReturned =>
        procs["conv"].st = "reaped" /\ procs["pot"].st = "reaped"

C8_Witness == JpegToEPSReturned /\ pc = "main_open"

\* what the capture process has written to its standard output
CaptureWritten == SubSeq(picture, 1, Len(picture) - Len(procs["cap"].outq))

\* C9: the converter and the tracer exist only once the capture process has
\* closed its output, terminated and been waited on, with everything it
\* wrote collected; capture never runs alongside either of them.
C9_CaptureBeforeConversion ==
    (Launched("conv") \/ Launched("pot")) =>
        /\ procs["cap"].st = "reaped"
        /\ pipes["cap_out"].writers = {} /\ pipes["cap_out"].buf = <<>>
        /\ jpeg_data = Bytes(CaptureWritten)

C9_Witness ==
    /\ Running("conv") /\ Running("pot")
    /\ jpeg_data.data = picture /\ Len(picture) = MaxLen

\* C10 as stated: from no position in Converting or Tracing does the run
\* step to a failure terminal state.
C10_NoFailureAfterCapture ==
    [][(pc \in ConvTracePcs) => ~(Failed')]_vars

Rank(p) ==
    CASE p = "main" -> 0
      [] p = "cap_popen" -> 1
      [] p = "cap_communicate" -> 2
      [] p = "cap_wait" -> 3
      [] p = "conv_popen" -> 4
      [] p = "pot_popen" -> 5
      [] p = "conv_stdout_close" -> 6
      [] p = "pot_communicate" -> 7
      [] p = "pot_wait" -> 8
      [] p = "conv_wait" -> 9
      [] p = "main_open" -> 10
      [] p = "main_write" -> 11
      [] p = "exited" -> 12

\* C10 amended: the run moves forward one position at a time or exits; out
\* of Capturing, Converting and Tracing it fails only at a launch that
\* finds no executable: with the build message for the capture tool, by
\* the uncaught FileNotFoundError for the converter and the tracer.
C10_FailureOnlyAtLaunch ==
    [][/\ pc' # pc => pc' = "exited" \/ Rank(pc') = Rank(pc) + 1
       /\ (pc \in CapturePcs \cup ConvTracePcs /\ Failed') =>
            /\ pc \in {"cap_popen", "conv_popen", "pot_popen"}
            /\ procs' = procs
            /\ exit'.err = IF pc = "cap_popen" THEN BuildMessage
                           ELSE "FileNotFoundError"]_vars

C10_Witness ==
    /\ Failed /\ exit.err = "FileNotFoundError"
    /\ Launched("conv") /\ ~Launched("pot")

\* some launched tool ended with a non-zero exit status
SomeToolFailed == \E t \in Tools : Terminated(t) /\ procs[t].code # 0

\* C11: a run in which all three tools were launched and one of them ended
\* with a non-zero status does not end in a failure state, and the
\* destination file holds the bytes the tracer produced.
C11_ToolFailureIgnored ==
    (pc = "exited" /\ SomeToolFailed /\ \A t \in Tools : Launched(t)) =>
        /\ ~Failed
        /\ file.exists /\ file.data = eps_data.data

\* what the converter has written to its standard output so far
ConverterWritten ==
    SubSeq(Convert(procs["conv"].inbuf), 1,
           Len(Convert(procs["conv"].inbuf)) - Len(procs["conv"].outq))

C13_FileUntouchedUntilReturn ==
    /\ ~JpegToEPSReturned => file = file0
    /\ (pc = "exited" /\ exit.err \in {UsageMessage, BuildMessage}) =>
            file = file0

C13_Witness ==
    /\ pc = "exited" /\ exit.err = BuildMessage
    /\ file0.exists /\ file = file0

====
